---- MODULE Spec2Model ----
(***************************************************************************)
(* Model of app.py: a Flask backend with four routes ("/", "/ask",         *)
(* "/history", "/clear_history") over one SQLite table "queries" and one   *)
(* external call to the Gemini text-generation service.                    *)
(*                                                                         *)
(* Texts (questions, answers, messages) are sequences of tokens; a         *)
(* question is a sequence of single characters so that str.strip() is      *)
(* computed character by character.  The server is threaded: every worker  *)
(* thread runs one request at a time, and the steps of different requests  *)
(* interleave at the points where a handler blocks (the Gemini call) or    *)
(* re-enters the database (the save of the except block).                  *)
(***************************************************************************)
EXTENDS Integers, Sequences, FiniteSets, TLC

(* ------------------------------ bounds --------------------------------- *)

\* rows inserted during one run of Spec
MaxInserts == 2
\* database faults injected during one run
MaxFaults == 2
\* readings of the UTC clock: 0 .. MaxClock
MaxClock == 1
\* rows inserted during one run of SpecBulk, beyond the LIMIT of /history
BulkExtra == 2

(* --------------------------- program constants ------------------------- *)

\* "... ORDER BY id DESC LIMIT 50"
HistoryLimit == 50

\* worker threads of the server
Threads == {1, 2}

OnlySpaces == {" "}

\* characters str.strip() removes (a subset of Python's whitespace)
Whitespace == {" ", "\t"}

\* answer_msg of the branch taken when GEMINI_API_KEY is not set
ConfigErrorMsg ==
    <<"GEMINI_API_KEY is not set on the server. Set it as an environment variable.">>

RECURSIVE LStrip(_)
LStrip(s) ==
    IF s # <<>> /\ Head(s) \in Whitespace THEN LStrip(Tail(s)) ELSE s

RECURSIVE RStrip(_)
RStrip(s) ==
    IF s # <<>> /\ s[Len(s)] \in Whitespace
    THEN RStrip(SubSeq(s, 1, Len(s) - 1))
    ELSE s

\* str.strip(): leading and trailing whitespace removed, inner kept
Strip(s) == RStrip(LStrip(s))

ErrMsgNoDetail(desc) == <<"Error calling Gemini: ">>

\* f"Error calling Gemini: {str(exc)}"
ErrMsg(desc) == <<"Error calling Gemini: ">> \o desc

(* ------------------------------ values ---------------------------------- *)

\* a JSON / Python value that is a string, and the null / None value
Str(s) == [t |-> "str", v |-> s]
Null == [t |-> "null", v |-> <<>>]

FalsyNoneOnly(x) == x.t = "null"

\* Python truthiness of a value that is None or a string ("if not x")
Falsy(x) == x.t = "null" \/ x.v = <<>>

\* dict.get(key, default)
DictGet(d, k, default) == IF k \in DOMAIN d THEN d[k] ELSE default

\* request bodies: {} and {"question": <value>}
EmptyBody == [k \in {} |-> Null]
QuestionBody(val) == [k \in {"question"} |-> val]

\* raw questions a client sends
Questions ==
    { <<>>, <<"\t", " ">>, <<" ", "a", " ", "b", "\t">> }

Bodies == {EmptyBody, QuestionBody(Null)} \cup {QuestionBody(Str(q)) : q \in Questions}

\* os.getenv("GEMINI_API_KEY"): unset, set to the empty string, set to a key
KeyValues == {Null, Str(<<>>), Str(<<"k">>)}

\* resp.text of a successful generate_content call
GatewayTexts == { <<"4", " ">> }
\* str(exc) of a failed generate_content call
GatewayErrors == { <<"quota">> }
GatewayOutcomes ==
    {[ok |-> TRUE, text |-> x] : x \in GatewayTexts}
        \cup {[ok |-> FALSE, text |-> x] : x \in GatewayErrors}

\* where a database call raises: nowhere, in sqlite3.connect, in execute, in commit
SaveFaults == {"none", "connect", "commit"}
ReadFaults == {"none", "connect", "execute"}

\* str(exc) of the sqlite3 error raised at a fault
StorageErrText(fault) ==
    IF fault = "connect" THEN <<"unable to open database file">>
    ELSE <<"database is locked">>

\* whether the connection was opened before the fault, so that the
\* conn_db.close() at the end of the function is skipped with it open
\* (the code never closes it afterwards; whether the interpreter finalises
\* the unreferenced object later is outside the code)
LeavesConnOpen(fault) == fault \in {"execute", "commit"}

(* ------------------------------ database -------------------------------- *)

Max(a, b) == IF a >= b THEN a ELSE b

RECURSIVE MaxId(_)
MaxId(rows) ==
    IF rows = <<>> THEN 0 ELSE Max(Head(rows).id, MaxId(Tail(rows)))

NextRowIdReuse(rows, seq) == MaxId(rows) + 1

\* id INTEGER PRIMARY KEY AUTOINCREMENT: one more than the largest id the
\* table has ever held, which sqlite_sequence remembers
NextRowId(rows, seq) == Max(seq, MaxId(rows)) + 1

\* INSERT INTO queries (question, answer, timestamp) VALUES (?, ?, ?)
InsertRow(rows, seq, question, answer, now) ==
    Append(rows, [id |-> NextRowId(rows, seq), question |-> question,
                  answer |-> answer, timestamp |-> now])

DeleteAllButNewest(rows) ==
    IF rows = <<>> THEN <<>> ELSE <<rows[Len(rows)]>>

DeleteOldestRow(rows) ==
    IF rows = <<>> THEN <<>> ELSE Tail(rows)

\* DELETE FROM queries
DeleteFromQueries(rows) == <<>>

\* the rows without the row of the given id
RowsWithout(rows, id) == SelectSeq(rows, LAMBDA r : r.id # id)

RowWithMaxId(rows) ==
    CHOOSE r \in {rows[i] : i \in 1 .. Len(rows)} :
        \A j \in 1 .. Len(rows) : rows[j].id <= r.id

RECURSIVE OrderByIdDesc(_)
\* ORDER BY id DESC
OrderByIdDesc(rows) ==
    IF rows = <<>> THEN <<>>
    ELSE <<RowWithMaxId(rows)>>
             \o OrderByIdDesc(RowsWithout(rows, RowWithMaxId(rows).id))

\* LIMIT n
Limit(rows, n) == SubSeq(rows, 1, IF Len(rows) < n THEN Len(rows) ELSE n)

SelectNoLimit(rows, n) == OrderByIdDesc(rows)

\* SELECT id, question, answer, timestamp FROM queries ORDER BY id DESC LIMIT n
SelectRecent(rows, n) == Limit(OrderByIdDesc(rows), n)

(* ------------------------------- state ---------------------------------- *)

VARIABLES
    gemini_env_key,   \* the credential read at start-up
    queries,          \* the rows of table queries, in insertion order
    sqlite_sequence,  \* the AUTOINCREMENT counter of table queries
    clock,            \* the reading of datetime.utcnow()
    pc,               \* per thread: "idle", "call", "except", "done"
    req,              \* per thread: the request in progress and its locals
    resp,             \* per thread: the response of the finished request
    trace,            \* per thread: what the request did to the database
    issued,           \* every id ever inserted, in insertion order
    lastAsk,          \* question and answer of the last Ask that saved and answered
    lastWrite,        \* the last committed statement: "init", "insert", "clear"
    sinceClear,       \* Asks that saved a row since the table was last empty
    faults            \* database faults so far

vars ==
    <<gemini_env_key, queries, sqlite_sequence, clock, pc, req, resp, trace,
      issued, lastAsk, lastWrite, sinceClear, faults>>

db == <<queries, sqlite_sequence, issued, lastWrite, sinceClear>>

NoReq ==
    [route |-> "none", body |-> EmptyBody, q_text |-> <<>>,
     gateway |-> "none", gw_text |-> <<>>, exc |-> <<>>]

NoResp == [status |-> 0, body |-> [none |-> TRUE]]

NoTrace ==
    [written |-> <<>>, conns |-> 0, faulted |-> FALSE,
     seenLen |-> 0, seenAsks |-> 0, seenLast |-> [question |-> <<>>, answer |-> <<>>],
     seenWrite |-> "init"]

\* jsonify(...) with a status
Json(status, body) == [status |-> status, body |-> body]

\* an exception no handler catches: the server answers 500 without JSON
Unhandled(exc) == [status |-> 500, body |-> [unhandled |-> exc]]

\* the module as loaded: _init_db_if_missing() has created the empty table
Init ==
    /\ gemini_env_key \in KeyValues
    /\ queries = <<>>
    /\ sqlite_sequence = 0
    /\ clock = 0
    /\ pc = [t \in Threads |-> "idle"]
    /\ req = [t \in Threads |-> NoReq]
    /\ resp = [t \in Threads |-> NoResp]
    /\ trace = [t \in Threads |-> NoTrace]
    /\ issued = <<>>
    /\ lastAsk = [question |-> <<>>, answer |-> <<>>]
    /\ lastWrite = "init"
    /\ sinceClear = 0
    /\ faults = 0

(* ------------------------------ database calls -------------------------- *)

\* A database call that raises at `fault`: nothing is committed, and the
\* connection stays open when it was opened before the fault.
DbFault(t, fault) ==
    /\ faults < MaxFaults
    /\ faults' = faults + 1
    /\ UNCHANGED db
    /\ trace' = [trace EXCEPT ![t].faulted = TRUE,
                              ![t].conns = @ + (IF LeavesConnOpen(fault) THEN 1 ELSE 0)]

\* _save_query_to_db(question_text, answer_text): connect, INSERT with
\* utcnow(), commit, close.  `cap` bounds the rows inserted in one run.
SaveQueryToDb(t, question, answer, fault, cap) ==
    IF fault = "none"
    THEN /\ Len(issued) < cap
         /\ queries' = InsertRow(queries, sqlite_sequence, question, answer, clock)
         /\ sqlite_sequence' = NextRowId(queries, sqlite_sequence)
         /\ issued' = Append(issued, NextRowId(queries, sqlite_sequence))
         /\ lastWrite' = "insert"
         /\ sinceClear' = sinceClear + 1
         /\ trace' = [trace EXCEPT ![t].written = Append(@, queries'[Len(queries')])]
         /\ UNCHANGED faults
    ELSE DbFault(t, fault)

\* _clear_db_queries(): connect, DELETE, commit, close
ClearDbQueries(t, fault) ==
    IF fault = "none"
    THEN /\ queries' = DeleteFromQueries(queries)
         /\ lastWrite' = "clear"
         /\ sinceClear' = 0
         /\ trace' = [trace EXCEPT ![t].seenLen = Len(queries)]
         /\ UNCHANGED <<sqlite_sequence, issued, faults>>
    ELSE DbFault(t, fault)

(* -------------------------------- routes -------------------------------- *)

Finish(t, r) ==
    /\ pc' = [pc EXCEPT ![t] = "done"]
    /\ resp' = [resp EXCEPT ![t] = r]

\* the latest Ask that saved a row: the question it asked (trimmed) and
\* the answer its response carries
Answered(t) ==
    lastAsk' = [question |-> req'[t].q_text, answer |-> resp'[t].body.answer]

\* index_route
IndexRoute(t) ==
    /\ pc[t] = "idle"
    /\ req' = [req EXCEPT ![t] = [NoReq EXCEPT !.route = "index"]]
    /\ Finish(t, [status |-> 200, body |-> [page |-> "index.html"]])
    /\ UNCHANGED <<gemini_env_key, clock, db, trace, lastAsk, faults>>

\* ask_route, the branch "if not gemini_env_key": save the fixed message
AskNoKey(t, q_text, fault, cap) ==
    /\ SaveQueryToDb(t, q_text, ConfigErrorMsg, fault, cap)
    /\ IF fault = "none"
       THEN /\ Finish(t, Json(500, [answer |-> ConfigErrorMsg]))
            /\ Answered(t)
       ELSE /\ Finish(t, Unhandled(StorageErrText(fault)))
            /\ UNCHANGED lastAsk

\* ask_route, from the request to the call of generate_content
AskRoute(t, body, fault, cap) ==
    /\ pc[t] = "idle"
    /\ LET question == DictGet(body, "question", Str(<<>>))
           q_text == Strip(question.v)
           r == [NoReq EXCEPT !.route = "ask", !.body = body]
       IN  CASE question.t # "str" ->
                   \* None has no strip(): AttributeError, caught by nobody
                   /\ fault = "none"
                   /\ req' = [req EXCEPT ![t] = r]
                   /\ Finish(t, Unhandled(<<"AttributeError">>))
                   /\ UNCHANGED <<db, trace, lastAsk, faults>>
             [] question.t = "str" /\ q_text = <<>> ->
                   /\ fault = "none"
                   /\ req' = [req EXCEPT ![t] = r]
                   /\ Finish(t, Json(400, [error |-> <<"Empty question">>]))
                   /\ UNCHANGED <<db, trace, lastAsk, faults>>
             [] question.t = "str" /\ q_text # <<>> /\ Falsy(gemini_env_key) ->
                   /\ req' = [req EXCEPT ![t] = [r EXCEPT !.q_text = q_text]]
                   /\ AskNoKey(t, q_text, fault, cap)
             [] OTHER ->
                   /\ fault = "none"
                   /\ req' = [req EXCEPT ![t] =
                                [r EXCEPT !.q_text = q_text, !.gateway = "called"]]
                   /\ pc' = [pc EXCEPT ![t] = "call"]
                   /\ UNCHANGED <<resp, db, trace, lastAsk, faults>>
    /\ UNCHANGED <<gemini_env_key, clock>>

\* ask_route, the try block after generate_content returned resp.text
AskTry(t, text, fault, cap) ==
    /\ SaveQueryToDb(t, req[t].q_text, text, fault, cap)
    /\ IF fault = "none"
       THEN /\ req' = [req EXCEPT ![t].gateway = "ok", ![t].gw_text = text]
            /\ Finish(t, Json(200, [answer |-> text]))
            /\ Answered(t)
       ELSE \* "except Exception" catches the sqlite3 error of the save
            /\ req' = [req EXCEPT ![t].gateway = "ok", ![t].gw_text = text,
                                  ![t].exc = StorageErrText(fault)]
            /\ pc' = [pc EXCEPT ![t] = "except"]
            /\ UNCHANGED <<resp, lastAsk>>

\* ask_route, generate_content returns or raises
GatewayReturn(t, out, fault, cap) ==
    /\ pc[t] = "call"
    /\ IF out.ok
       THEN AskTry(t, out.text, fault, cap)
       ELSE /\ fault = "none"
            /\ req' = [req EXCEPT ![t].gateway = "failed", ![t].exc = out.text]
            /\ pc' = [pc EXCEPT ![t] = "except"]
            /\ UNCHANGED <<resp, db, trace, lastAsk, faults>>
    /\ UNCHANGED <<gemini_env_key, clock>>

ExceptBlockUnsaved(t, fault, cap) ==
    /\ pc[t] = "except"
    /\ fault = "none"
    /\ Finish(t, Json(500, [answer |-> ErrMsg(req[t].exc)]))
    /\ UNCHANGED <<gemini_env_key, clock, req, db, trace, lastAsk, faults>>

\* ask_route, the except block: format the error, save it, answer 500
ExceptBlock(t, fault, cap) ==
    /\ pc[t] = "except"
    /\ UNCHANGED <<gemini_env_key, clock, req>>
    /\ SaveQueryToDb(t, req[t].q_text, ErrMsg(req[t].exc), fault, cap)
    /\ IF fault = "none"
       THEN /\ Finish(t, Json(500, [answer |-> ErrMsg(req[t].exc)]))
            /\ Answered(t)
       ELSE /\ Finish(t, Unhandled(StorageErrText(fault)))
            /\ UNCHANGED lastAsk

\* history_route: connect, SELECT, fetchall, close, jsonify
HistoryRoute(t, fault) ==
    /\ pc[t] = "idle"
    /\ req' = [req EXCEPT ![t] = [NoReq EXCEPT !.route = "history"]]
    /\ IF fault = "none"
       THEN /\ Finish(t, Json(200, [history |-> SelectRecent(queries, HistoryLimit)]))
            /\ trace' = [trace EXCEPT ![t].seenLen = Len(queries),
                                      ![t].seenAsks = sinceClear,
                                      ![t].seenLast = lastAsk,
                                      ![t].seenWrite = lastWrite]
            /\ UNCHANGED <<db, faults>>
       ELSE /\ DbFault(t, fault)
            /\ Finish(t, Unhandled(StorageErrText(fault)))
    /\ UNCHANGED <<gemini_env_key, clock, lastAsk>>

\* clear_history_route
ClearHistoryRoute(t, fault) ==
    /\ pc[t] = "idle"
    /\ req' = [req EXCEPT ![t] = [NoReq EXCEPT !.route = "clear"]]
    /\ ClearDbQueries(t, fault)
    /\ IF fault = "none"
       THEN Finish(t, Json(200, [success |-> TRUE, message |-> <<"History cleared">>]))
       ELSE Finish(t, Unhandled(StorageErrText(fault)))
    /\ UNCHANGED <<gemini_env_key, clock, lastAsk>>

\* the server sends the response; the thread takes the next request
Deliver(t) ==
    /\ pc[t] = "done"
    /\ pc' = [pc EXCEPT ![t] = "idle"]
    /\ req' = [req EXCEPT ![t] = NoReq]
    /\ resp' = [resp EXCEPT ![t] = NoResp]
    /\ trace' = [trace EXCEPT ![t] = NoTrace]
    /\ UNCHANGED <<gemini_env_key, clock, db, lastAsk, faults>>

\* time passes between two readings of datetime.utcnow()
Tick ==
    /\ clock < MaxClock
    /\ clock' = clock + 1
    /\ UNCHANGED <<gemini_env_key, pc, req, resp, trace, db, lastAsk, faults>>

(* ---------------------------- specifications ---------------------------- *)

Next ==
    \/ \E t \in Threads : IndexRoute(t)
    \/ \E t \in Threads, body \in Bodies, fault \in SaveFaults :
           AskRoute(t, body, fault, MaxInserts)
    \/ \E t \in Threads, out \in GatewayOutcomes, fault \in SaveFaults :
           GatewayReturn(t, out, fault, MaxInserts)
    \/ \E t \in Threads, fault \in SaveFaults : ExceptBlock(t, fault, MaxInserts)
    \/ \E t \in Threads, fault \in ReadFaults : HistoryRoute(t, fault)
    \/ \E t \in Threads, fault \in SaveFaults : ClearHistoryRoute(t, fault)
    \/ \E t \in Threads : Deliver(t)
    \/ Tick

Spec == Init /\ [][Next]_vars

\* The same server driven by one client that asks one question over and
\* over, with a working database, until the table holds more rows than
\* /history returns.  The gateway fails only while no row of the table
\* holds a formatted gateway error.
BulkThreads == {1}
BulkBodies == {QuestionBody(Str(<<" ", "a", " ", "b", "\t">>))}
BulkCap == HistoryLimit + BulkExtra

\* rows holding a formatted gateway error
ErrorRows(rows) ==
    {i \in 1 .. Len(rows) : Head(rows[i].answer) = Head(ErrMsg(<<>>))}

NextBulk ==
    \/ \E t \in BulkThreads, body \in BulkBodies : AskRoute(t, body, "none", BulkCap)
    \/ \E t \in BulkThreads, out \in GatewayOutcomes :
           /\ out.ok \/ ErrorRows(queries) = {}
           /\ GatewayReturn(t, out, "none", BulkCap)
    \/ \E t \in BulkThreads : ExceptBlock(t, "none", BulkCap)
    \/ \E t \in BulkThreads : HistoryRoute(t, "none")
    \/ \E t \in BulkThreads : ClearHistoryRoute(t, "none")
    \/ \E t \in BulkThreads : Deliver(t)

SpecBulk == Init /\ [][NextBulk]_vars

(* ------------------------------- claims --------------------------------- *)

Done(t) == pc[t] = "done"

\* the value of "question" in the body of the request, "" when it has none
RawQuestion(t) == DictGet(req[t].body, "question", Str(<<>>))

\* a text that is empty or made of spaces and tabs only
IsBlank(s) == \A i \in 1 .. Len(s) : s[i] \in {" ", "\t"}

\* an Ask whose question is a string that is not blank
AskNonBlank(t) ==
    /\ req[t].route = "ask"
    /\ RawQuestion(t).t = "str"
    /\ ~IsBlank(RawQuestion(t).v)

\* an Ask whose question is a blank string, or is missing
AskBlank(t) ==
    /\ req[t].route = "ask"
    /\ RawQuestion(t).t = "str"
    /\ IsBlank(RawQuestion(t).v)

\* the response is one the handler built with an "answer"
HasAnswer(t) == "answer" \in DOMAIN resp[t].body
IsUnhandled(t) == "unhandled" \in DOMAIN resp[t].body

CredentialAbsent == gemini_env_key = Null \/ gemini_env_key = Str(<<>>)

\* C1: an Ask with a non-blank question that answers (credential missing,
\* gateway success or gateway failure) has inserted exactly one row; no Ask
\* ever inserts two; an Ask inserts none only when its database write raised
\* and it ended as an unhandled failure.
C1_ExactlyOneRecord ==
    \A t \in Threads :
        AskNonBlank(t) =>
            /\ Len(trace[t].written) <= 1
            /\ (Done(t) /\ HasAnswer(t)) => Len(trace[t].written) = 1
            /\ (Done(t) /\ ~HasAnswer(t)) =>
                   /\ IsUnhandled(t)
                   /\ trace[t].faulted
                   /\ trace[t].written = <<>>
            /\ (Done(t) /\ ~trace[t].faulted) => HasAnswer(t)

\* C1 witness: three finished Asks are seen over a run; here one that went
\* through the except block after a gateway failure and saved its row.
C1_Witness ==
    \E t \in Threads :
        /\ Done(t) /\ AskNonBlank(t)
        /\ req[t].gateway = "failed"
        /\ resp[t].status = 500
        /\ Len(trace[t].written) = 1
        /\ ~trace[t].faulted

\* C2: an Ask whose question is blank or missing answers 400 "Empty
\* question" in one step that calls neither the gateway nor the database and
\* leaves the table and its id counter as they were.
C2_EmptyQuestionRejected ==
    [][\A t \in Threads :
          (pc[t] = "idle" /\ req'[t].route = "ask"
              /\ DictGet(req'[t].body, "question", Str(<<>>)).t = "str"
              /\ IsBlank(DictGet(req'[t].body, "question", Str(<<>>)).v))
          => /\ pc'[t] = "done"
             /\ resp'[t] = [status |-> 400, body |-> [error |-> <<"Empty question">>]]
             /\ req'[t].gateway = "none"
             /\ trace'[t] = NoTrace
             /\ UNCHANGED <<queries, sqlite_sequence, issued, faults>>]_vars

\* C2 witness: a question of a tab and a space was rejected while the table
\* holds a row.
C2_Witness ==
    \E t \in Threads :
        /\ Done(t) /\ AskBlank(t)
        /\ RawQuestion(t).v = <<"\t", " ">>
        /\ resp[t].status = 400
        /\ queries # <<>>

\* the ids of a list of rows strictly descend
StrictlyDescending(h) == \A i \in 1 .. Len(h) - 1 : h[i].id > h[i + 1].id

\* C3: after N Asks that saved a row since the table was last empty, History
\* returns min(N, 50) rows, ids strictly descending, the first of them
\* holding the question (trimmed) and the answer of the latest Ask.
C3_HistoryRecent ==
    \A t \in Threads :
        (Done(t) /\ req[t].route = "history" /\ ~trace[t].faulted) =>
            /\ resp[t].status = 200
            /\ DOMAIN resp[t].body = {"history"}
            /\ LET h == resp[t].body.history
                   n == trace[t].seenAsks
               IN  /\ Len(h) = (IF n < 50 THEN n ELSE 50)
                   /\ StrictlyDescending(h)
                   /\ n > 0 =>
                        /\ h[1].question = trace[t].seenLast.question
                        /\ h[1].answer = trace[t].seenLast.answer

\* C3 witness: History answered with 50 rows after 51 Asks, one of which
\* had saved a gateway error.
C3_Witness ==
    \E t \in Threads :
        /\ Done(t) /\ req[t].route = "history"
        /\ trace[t].seenAsks = 51
        /\ Len(resp[t].body.history) = 50
        /\ ErrorRows(queries) # {}

\* C4: a History that reads right after a ClearHistory (no row saved in
\* between) returns the empty list; a ClearHistory whose DELETE went through
\* answers 200 and leaves the table empty, also when it was empty before.
C4_ClearThenHistoryEmpty ==
    /\ lastWrite = "clear" => queries = <<>>
    /\ \A t \in Threads :
        /\ (Done(t) /\ req[t].route = "history" /\ ~trace[t].faulted
               /\ trace[t].seenWrite = "clear")
           => resp[t] = [status |-> 200, body |-> [history |-> <<>>]]
        /\ (Done(t) /\ req[t].route = "clear" /\ ~trace[t].faulted)
           => resp[t] = [status |-> 200,
                         body |-> [success |-> TRUE, message |-> <<"History cleared">>]]

\* C4 witness: one thread read the history right after a clear of a table
\* that had held a row, and another thread has cleared the empty table.
C4_Witness ==
    \E t, u \in Threads :
        /\ Done(t) /\ req[t].route = "history" /\ trace[t].seenWrite = "clear"
        /\ issued # <<>>
        /\ Done(u) /\ req[u].route = "clear" /\ trace[u].seenLen = 0
        /\ resp[u].status = 200

\* C5: with the credential absent (unset or empty), an Ask with a non-blank
\* question never reaches the gateway, and once its row is written it
\* answers 500 with the fixed configuration text, which is the answer of the
\* row it wrote.
C5_NoCredential ==
    CredentialAbsent =>
        \A t \in Threads :
            AskNonBlank(t) =>
                /\ req[t].gateway = "none"
                /\ pc[t] = "done"
                /\ ~trace[t].faulted =>
                      /\ resp[t] = [status |-> 500, body |-> [answer |-> ConfigErrorMsg]]
                      /\ Len(trace[t].written) = 1
                      /\ trace[t].written[1].answer = ConfigErrorMsg
                      /\ trace[t].written[1].answer = resp[t].body.answer

\* C5 witness: the key is the empty string and two Asks have answered 500.
C5_Witness ==
    /\ gemini_env_key = Str(<<>>)
    /\ \A t \in Threads :
          /\ Done(t) /\ AskNonBlank(t)
          /\ resp[t].status = 500
          /\ Len(trace[t].written) = 1

\* C6: with the credential present, an Ask with a non-blank question whose
\* database writes all went through answers 200 with the gateway's text as
\* it is when the gateway succeeded, and 500 with "Error calling Gemini: "
\* followed by the failure's description when it failed; whenever an Ask
\* answers, the row it wrote holds the answer of the response.
C6_AnswerMatchesRecord ==
    ~CredentialAbsent =>
        \A t \in Threads :
            (Done(t) /\ AskNonBlank(t)) =>
                /\ (req[t].gateway = "ok" /\ ~trace[t].faulted) =>
                       /\ resp[t] = [status |-> 200, body |-> [answer |-> req[t].gw_text]]
                       /\ req[t].gw_text \in GatewayTexts
                /\ (req[t].gateway = "failed" /\ ~trace[t].faulted) =>
                       /\ req[t].exc \in GatewayErrors
                       /\ resp[t] = [status |-> 500,
                                     body |-> [answer |->
                                         <<"Error calling Gemini: ">> \o req[t].exc]]
                /\ HasAnswer(t) =>
                       /\ Len(trace[t].written) = 1
                       /\ trace[t].written[1].answer = resp[t].body.answer
                       /\ resp[t].status \in {200, 500}

\* C6 witness: one Ask answered 200 with the gateway's text and another
\* answered 500 with the formatted gateway failure.
C6_Witness ==
    \E t, u \in Threads :
        /\ Done(t) /\ AskNonBlank(t) /\ req[t].gateway = "ok"
        /\ resp[t].status = 200 /\ resp[t].body.answer = <<"4", " ">>
        /\ Done(u) /\ AskNonBlank(u) /\ req[u].gateway = "failed"
        /\ resp[u].status = 500
        /\ resp[u].body.answer = <<"Error calling Gemini: ", "quota">>

\* C7: the ids inserted over the whole run strictly increase, rows removed
\* by ClearHistory included; the rows of the table carry distinct ids, each
\* one of the ids inserted.
C7_IdsStrictlyIncrease ==
    /\ \A i \in 1 .. Len(issued) - 1 : issued[i] < issued[i + 1]
    /\ \A i, j \in 1 .. Len(queries) : i < j => queries[i].id < queries[j].id
    /\ \A i \in 1 .. Len(queries) : \E k \in 1 .. Len(issued) : issued[k] = queries[i].id

\* C7 witness: a row was inserted after a clear removed an earlier one.
C7_Witness ==
    /\ Len(issued) >= 2
    /\ Len(queries) = 1
    /\ lastWrite = "insert"

\* C8 as claimed: a finished Ask one of whose database writes raised has
\* ended as an unhandled failure, with no row written and no answer built
\* by the handler.
C8_StorageFailurePropagates ==
    \A t \in Threads :
        (Done(t) /\ req[t].route = "ask" /\ trace[t].faulted) =>
            /\ IsUnhandled(t)
            /\ ~HasAnswer(t)
            /\ trace[t].written = <<>>

\* C9 as claimed: a finished request holds no open connection.
C9_ConnectionsReleased ==
    \A t \in Threads : Done(t) => trace[t].conns = 0

\* C10: every step either leaves the table as it is, or appends one row
\* with a new id to the rows it had, or removes every row; a step that
\* starts and ends a History or an Index leaves the table and its id counter
\* as they were.
C10_AppendOrClearOnly ==
    [][/\ \/ queries' = queries
          \/ /\ Len(queries') = Len(queries) + 1
             /\ SubSeq(queries', 1, Len(queries)) = queries
             /\ \A i \in 1 .. Len(queries) :
                    queries[i].id # queries'[Len(queries')].id
          \/ queries' = <<>>
       /\ \A t \in Threads :
             (pc[t] = "idle" /\ req'[t].route \in {"history", "index"})
             => UNCHANGED <<queries, sqlite_sequence>>]_vars

\* C10 witness: a row was appended next to an older one while a History
\* answer is pending and another request waits for the gateway.
C10_Witness ==
    /\ Len(queries) = 2
    /\ queries[1].answer # queries[2].answer
    /\ \E t, u \in Threads :
          /\ Done(t) /\ req[t].route = "history"
          /\ pc[u] = "call"

====
